---- MODULE Spec2Model ----
(***************************************************************************)
(* SARIF Compare: the upload session (App), the category resolver, the     *)
(* per-dataset category aggregation and the comparison engine              *)
(* (ComparisonView).                                                       *)
(*                                                                         *)
(* Representation.                                                         *)
(*   - A JavaScript string that the code inspects character by character   *)
(*     (a tag, a category) is a sequence of one-character strings.  A      *)
(*     ruleId is only ever used as a property key and compared with ===,   *)
(*     so it is a TLA+ string.                                             *)
(*   - A plain object used as a dictionary (Record<string, T>) is the      *)
(*     sequence of its own [key, value] entries in property enumeration    *)
(*     order; reads that miss an own property fall through to              *)
(*     Object.prototype.                                                   *)
(*   - The optional fields rules and tags are pairs hasF / f.  A level     *)
(*     (of a result, or of a rule's defaultConfiguration) is absent from   *)
(*     the record when it is missing, and so is a field that only a        *)
(*     document outside types/sarif.ts can lack (runs, results, tool,      *)
(*     driver, ruleId).                                                    *)
(*   - A number that may be fractional (an overlap, an average) is an      *)
(*     exact rational [num, den] with den > 0.  IEEE-754 rounding is not   *)
(*     modelled; within the bounds used no value is close enough to a      *)
(*     rounding boundary of toFixed(1) for that to matter.                 *)
(***************************************************************************)
EXTENDS Integers, Sequences, FiniteSets, TLC

VARIABLES
    sarifs,     \* App state: the three dataset slots (part_001:9-12)
    pending,    \* file reads started and not yet completed: the slot index
                \* each read's onFileUpload closure captured (part_003:14-23)
    alert,      \* TRUE when the last completed read ended in the catch/alert
    arg,        \* input of the function under study (function-level specs)
    res         \* its result, NotComputed before the call

vars == <<sarifs, pending, alert, arg, res>>

----------------------------------------------------------------------------
(* Bounds *)

MaxFindings == 2        \* findings per uploaded document (Spec)
MaxPending == 1         \* file reads in flight (Spec, SpecE2E)
MaxTags == 2            \* tags per rule (SpecResolver)
MaxCount == 8           \* findings of a category in a dataset (SpecRow)
MaxRows == 3            \* Comparison Rows (SpecAverage)
MaxRowCount == 2        \* findings of a category in a dataset (SpecAverage)
MaxGroupFindings == 3   \* findings per document (SpecGroup)
MaxViewFindings == 2    \* findings per document (SpecViews)

----------------------------------------------------------------------------
(* Generic helpers *)

Min2(a, b) == IF a <= b THEN a ELSE b
Max2(a, b) == IF a >= b THEN a ELSE b

SetMin(S) == CHOOSE x \in S : \A y \in S : x <= y

SeqsUpTo(S, n) == UNION {[1..k -> S] : k \in 0..n}

NotComputed == [computed |-> FALSE]

\* the object obj has the property f (obj.f is not undefined)
Has(obj, f) == f \in DOMAIN obj

----------------------------------------------------------------------------
(* JavaScript strings as character sequences *)

Digits == {"0", "1", "2", "3", "4", "5", "6", "7", "8", "9"}

\* UTF-16 code unit of the characters that can occur in a category
\* ("CWE-" followed by decimal digits); Array.prototype.sort without a
\* comparator orders strings by these.
CodeUnit(c) ==
    CASE c = "-" -> 45
      [] c = "0" -> 48 [] c = "1" -> 49 [] c = "2" -> 50 [] c = "3" -> 51
      [] c = "4" -> 52 [] c = "5" -> 53 [] c = "6" -> 54 [] c = "7" -> 55
      [] c = "8" -> 56 [] c = "9" -> 57
      [] c = ":" -> 58
      [] c = "C" -> 67 [] c = "E" -> 69 [] c = "W" -> 87

\* String.prototype.startsWith
startsWith(s, prefix) ==
    /\ Len(s) >= Len(prefix)
    /\ SubSeq(s, 1, Len(prefix)) = prefix

\* s < t in the order sort() uses: code unit by code unit, a proper prefix
\* first.
StrLess(s, t) ==
    \E k \in 1..(Min2(Len(s), Len(t)) + 1) :
        /\ \A j \in 1..(k - 1) : s[j] = t[j]
        /\ \/ k = Len(s) + 1 /\ k <= Len(t)
           \/ k <= Len(s) /\ k <= Len(t) /\ CodeUnit(s[k]) < CodeUnit(t[k])

\* null, as returned by getCWEFromTags; no string is equal to it.
Null == <<"null">>

\* truthiness of a value that is a string or null
Truthy(s) == s # Null /\ s # <<>>

PrefixColon == <<"C", "W", "E", ":">>
PrefixDash == <<"C", "W", "E", "-">>

----------------------------------------------------------------------------
(* Category Resolver: getCWEFromTags, getRuleTags (part_000:23-35) *)

\* The regular expression /CWE[-:](\d+)/ matches at position p of s.
CWEPatternAt(s, p) ==
    /\ p + 4 <= Len(s)
    /\ s[p] = "C" /\ s[p + 1] = "W" /\ s[p + 2] = "E"
    /\ s[p + 3] \in {"-", ":"}
    /\ s[p + 4] \in Digits

\* Last position of the (greedy) digit run that starts at position i.
DigitRunEnd(s, i) ==
    CHOOSE e \in i..Len(s) :
        /\ \A j \in i..e : s[j] \in Digits
        /\ (e = Len(s) \/ s[e + 1] \notin Digits)

\* cweTag.match(/CWE[-:](\d+)/): the leftmost match; group1 is match[1].
cweMatch(s) ==
    LET ps == {p \in 1..Len(s) : CWEPatternAt(s, p)} IN
    IF ps = {} THEN [matched |-> FALSE, group1 |-> <<>>]
    ELSE LET p == SetMin(ps) IN
         [matched |-> TRUE, group1 |-> SubSeq(s, p + 4, DigitRunEnd(s, p + 4))]

IsCWETag(tag) == startsWith(tag, PrefixColon) \/ startsWith(tag, PrefixDash)

\* Variant of getCWEFromTags: a first tag with the prefix that the pattern
\* does not match gives the category with an empty digit run.
getCWEFromTagsEmptyRun(tags) ==
    LET hits == {i \in 1..Len(tags) : IsCWETag(tags[i])} IN
    IF hits = {} THEN Null
    ELSE PrefixDash \o cweMatch(tags[SetMin(hits)]).group1

\* Variant of getCWEFromTags: the first tag with the prefix that the pattern
\* matches decides, a tag with the prefix and no match being skipped.
getCWEFromTagsSkipping(tags) ==
    LET hits == {i \in 1..Len(tags) : IsCWETag(tags[i]) /\ cweMatch(tags[i]).matched} IN
    IF hits = {} THEN Null
    ELSE PrefixDash \o cweMatch(tags[SetMin(hits)]).group1

getCWEFromTags(tags) ==
    LET hits == {i \in 1..Len(tags) : IsCWETag(tags[i])} IN
    IF hits = {} THEN Null
    ELSE LET cweTag == tags[SetMin(hits)]
             match == cweMatch(cweTag)
         IN IF ~match.matched THEN Null
            ELSE PrefixDash \o match.group1

\* run.tool.driver.rules?.find(r => r.id === ruleId), then
\* rule?.properties?.tags || []
getRuleTags(run, ruleId) ==
    LET driver == run.tool.driver
        rules == IF driver.hasRules THEN driver.rules ELSE <<>>
        hits == {i \in 1..Len(rules) : rules[i].id = ruleId}
    IN IF hits = {} THEN <<>>
       ELSE LET rule == rules[SetMin(hits)] IN
            IF rule.hasTags THEN rule.tags ELSE <<>>


----------------------------------------------------------------------------
(* Plain objects used as dictionaries *)

\* The property names every plain object inherits from Object.prototype.
\* Reading one of them on an object that has no own property of that name
\* yields the inherited value: a function (or, for __proto__, the prototype
\* object), which is truthy and has no push method.
ObjectPrototypeKeys ==
    {"constructor", "__proto__", "hasOwnProperty", "isPrototypeOf",
     "propertyIsEnumerable", "toLocaleString", "toString", "valueOf",
     "__defineGetter__", "__defineSetter__", "__lookupGetter__",
     "__lookupSetter__"}

\* The ruleIds of the model that are canonical array indices ("2", "10"),
\* with their numeric values: own properties with such names are enumerated
\* first, in ascending numeric order, before all other names, which keep
\* their insertion order.
ArrayIndexKeys == {"2", "10"}
ArrayIndexValue(k) == IF k = "2" THEN 2 ELSE 10

HasOwn(obj, k) == \E i \in DOMAIN obj : obj[i].key = k

OwnIndex(obj, k) == CHOOSE i \in DOMAIN obj : obj[i].key = k

\* obj[k]
Get(obj, k) ==
    IF HasOwn(obj, k) THEN [kind |-> "own", value |-> obj[OwnIndex(obj, k)].value]
    ELSE IF k \in ObjectPrototypeKeys THEN [kind |-> "inherited", value |-> <<>>]
    ELSE [kind |-> "undefined", value |-> <<>>]

\* Position at which a new own property k is enumerated.
NewKeyPosition(obj, k) ==
    IF k \in ArrayIndexKeys
    THEN 1 + Cardinality({i \in DOMAIN obj :
                 /\ obj[i].key \in ArrayIndexKeys
                 /\ ArrayIndexValue(obj[i].key) < ArrayIndexValue(k)})
    ELSE Len(obj) + 1

\* obj[k] = v
Set(obj, k, v) ==
    IF HasOwn(obj, k)
    THEN [obj EXCEPT ![OwnIndex(obj, k)].value = v]
    ELSE LET p == NewKeyPosition(obj, k) IN
         SubSeq(obj, 1, p - 1) \o <<[key |-> k, value |-> v]>>
             \o SubSeq(obj, p, Len(obj))

----------------------------------------------------------------------------
(* Finding Store: handleFileUpload (part_001:14-31) *)

\* One step of results.reduce: if (!acc[ruleId]) acc[ruleId] = [];
\* acc[ruleId].push(result).  raised: the step threw a TypeError.
\* A result without a ruleId has result.ruleId === undefined, and the
\* property key undefined is converted to is the string "undefined".
groupStep(acc, result) ==
    LET ruleId == IF Has(result, "ruleId") THEN result.ruleId ELSE "undefined"
        seen == Get(acc, ruleId)
        acc1 == IF seen.kind = "undefined" THEN Set(acc, ruleId, <<>>) ELSE acc
        target == Get(acc1, ruleId)
    IN IF target.kind = "own"
       THEN [raised |-> FALSE, acc |-> Set(acc1, ruleId, Append(target.value, result))]
       ELSE [raised |-> TRUE, acc |-> acc1]

RECURSIVE groupReduce(_, _, _)
groupReduce(results, i, st) ==
    IF i > Len(results) \/ st.raised THEN st
    ELSE groupReduce(results, i + 1, groupStep(st.acc, results[i]))

\* results.reduce(..., {}) of handleFileUpload
groupByRule(results) == groupReduce(results, 1, [raised |-> FALSE, acc |-> <<>>])

\* handleFileUpload up to the setSarifs call: the dataset it stores, or
\* raised when it threw: sarifData.runs[0] without runs, run.results of
\* the undefined first run, results.reduce without results, or the
\* grouping.  run.tool is not read here.
handleFileUpload(sarifData) ==
    IF ~Has(sarifData, "runs") THEN [raised |-> TRUE]
    ELSE IF Len(sarifData.runs) = 0 THEN [raised |-> TRUE]
    ELSE LET run == sarifData.runs[1] IN
         IF ~Has(run, "results") THEN [raised |-> TRUE]
         ELSE LET grouped == groupByRule(run.results) IN
              IF grouped.raised THEN [raised |-> TRUE]
              ELSE [raised |-> FALSE,
                    dataset |-> [results |-> grouped.acc, run |-> run]]

----------------------------------------------------------------------------
(* Category Aggregator: groupByCWE (part_000:38-53) *)

\* cweGroups is keyed by categories only; a category begins with "CWE-", so
\* it is neither a property of Object.prototype nor an array index, and new
\* keys are enumerated in insertion order.
HasCWE(cweGroups, cwe) == \E i \in DOMAIN cweGroups : cweGroups[i].key = cwe

CWEIndex(cweGroups, cwe) == CHOOSE i \in DOMAIN cweGroups : cweGroups[i].key = cwe

\* const tags = getRuleTags(run, ruleId); const cwe = getCWEFromTags(tags)
categoryOf(run, ruleId) == getCWEFromTags(getRuleTags(run, ruleId))

groupByCWEStep(cweGroups, entry, run) ==
    LET ruleId == entry.key
        items == entry.value
        cwe == categoryOf(run, ruleId)
        g == [ruleId |-> ruleId, items |-> items]
    IN IF ~Truthy(cwe) THEN cweGroups
       ELSE IF HasCWE(cweGroups, cwe)
       THEN [cweGroups EXCEPT ![CWEIndex(cweGroups, cwe)].value = Append(@, g)]
       ELSE Append(cweGroups, [key |-> cwe, value |-> <<g>>])

RECURSIVE groupByCWEFrom(_, _, _, _)
groupByCWEFrom(results, run, i, cweGroups) ==
    IF i > Len(results) THEN cweGroups
    ELSE groupByCWEFrom(results, run, i + 1,
                        groupByCWEStep(cweGroups, results[i], run))

\* Object.entries(results).forEach(...)
groupByCWE(results, run) == groupByCWEFrom(results, run, 1, <<>>)


----------------------------------------------------------------------------
(* Comparison Engine: ComparisonView (part_000:55-94) *)
(* Position i of a JavaScript array is position i + 1 of the sequence.     *)

\* Exact rationals
Rat(n, d) == [num |-> n, den |-> d]
RatEq(p, q) == p.num * q.den = q.num * p.den
RatAdd(p, q) == Rat(p.num * q.den + q.num * p.den, p.den * q.den)

\* Object.keys(group)
Keys(obj) == [i \in 1..Len(obj) |-> obj[i].key]

RECURSIVE flatMapKeys(_, _)
flatMapKeys(groups, i) ==
    IF i > Len(groups) THEN <<>>
    ELSE Keys(groups[i]) \o flatMapKeys(groups, i + 1)

\* [...new Set(list)]: the first occurrence of every value, in order
RECURSIVE uniqueInOrder(_)
uniqueInOrder(list) ==
    IF list = <<>> THEN <<>>
    ELSE LET init == uniqueInOrder(SubSeq(list, 1, Len(list) - 1))
             last == list[Len(list)]
         IN IF \E i \in DOMAIN init : init[i] = last THEN init
            ELSE Append(init, last)

\* list with x inserted before the first element that x is smaller than
InsertSorted(list, x) ==
    LET after == {i \in DOMAIN list : StrLess(x, list[i])}
        p == IF after = {} THEN Len(list) + 1 ELSE SetMin(after)
    IN SubSeq(list, 1, p - 1) \o <<x>> \o SubSeq(list, p, Len(list))

\* Array.prototype.sort() without a comparator
RECURSIVE sort(_)
sort(list) ==
    IF list = <<>> THEN <<>>
    ELSE InsertSorted(sort(SubSeq(list, 1, Len(list) - 1)), list[Len(list)])

\* cweGroups = sarifs.map(sarif => groupByCWE(sarif.results, sarif.run))
cweGroupsOf(active) ==
    [i \in 1..Len(active) |-> groupByCWE(active[i].results, active[i].run)]

toolNames(active) == [i \in 1..Len(active) |-> active[i].run.tool.driver.name]

\* Variant of allCWEs: the categories in order of first occurrence.
allCWEsUnsorted(groups) == uniqueInOrder(flatMapKeys(groups, 1))

allCWEs(groups) == sort(uniqueInOrder(flatMapKeys(groups, 1)))

RECURSIVE sumItems(_, _)
sumItems(entries, i) ==
    IF i > Len(entries) THEN 0
    ELSE Len(entries[i].items) + sumItems(entries, i + 1)

\* Variant of findingCount: only the first rule of the category is counted.
findingCountFirstRule(group, cwe) ==
    IF HasCWE(group, cwe) THEN Len(group[CWEIndex(group, cwe)].value[1].items)
    ELSE 0

\* Variant of findingCount: the rules of the category are counted, not
\* their findings.
findingCountRules(group, cwe) ==
    IF HasCWE(group, cwe) THEN Len(group[CWEIndex(group, cwe)].value)
    ELSE 0

\* group[cwe]?.reduce((sum, { items }) => sum + items.length, 0) || 0
findingCount(group, cwe) ==
    IF HasCWE(group, cwe) THEN sumItems(group[CWEIndex(group, cwe)].value, 1)
    ELSE 0

\* Variant of deltasOf: every dataset against dataset 0.
deltasFromFirst(findings) ==
    [i \in 1..(Len(findings) - 1) |-> findings[i + 1] - findings[1]]

\* findings.slice(1).map((count, i) => count - findings[i])
deltasOf(findings) ==
    [i \in 1..(Len(findings) - 1) |-> findings[i + 1] - findings[i]]

\* Variant of overlapOf: two counts of 0 overlap fully.
overlapOfEqualIsFull(firstCount, count) ==
    IF firstCount = count THEN Rat(100, 1)
    ELSE Rat(Min2(count, firstCount) * 100, Max2(count, firstCount))

\* one element of overlaps (part_000:71-80)
overlapOf(firstCount, count) ==
    IF firstCount = 0 /\ count = 0 THEN Rat(0, 1)
    ELSE LET overlap == Min2(count, firstCount)
             total == Max2(count, firstCount)
         IN IF total = 0 THEN Rat(0, 1) ELSE Rat(overlap * 100, total)

overlapsOf(findings) ==
    [i \in 1..(Len(findings) - 1) |-> overlapOf(findings[1], findings[i + 1])]

\* the object summaryData holds for one category
summaryRow(cwe, findings) ==
    [cwe |-> cwe, findings |-> findings,
     deltas |-> deltasOf(findings), overlaps |-> overlapsOf(findings)]

findingsOf(groups, cwe) ==
    [i \in 1..Len(groups) |-> findingCount(groups[i], cwe)]

summaryDataOf(groups) ==
    LET cwes == allCWEs(groups) IN
    [k \in 1..Len(cwes) |-> summaryRow(cwes[k], findingsOf(groups, cwes[k]))]

RECURSIVE sumOverlaps(_, _, _)
sumOverlaps(rows, index, k) ==
    IF k > Len(rows) THEN Rat(0, 1)
    ELSE RatAdd(rows[k].overlaps[index], sumOverlaps(rows, index, k + 1))

\* Variant of averageAt: the sum is divided by the number of datasets
\* compared.
averageAtPerDataset(rows, index) ==
    LET sum == sumOverlaps(rows, index, 1) IN
    Rat(sum.num, sum.den * (Len(rows[1].overlaps) + 1))

\* one element of averageOverlaps (part_000:92-93)
averageAt(rows, index) ==
    LET sum == sumOverlaps(rows, index, 1) IN
    IF Len(rows) > 0 THEN Rat(sum.num, sum.den * Len(rows)) ELSE Rat(0, 1)

\* summaryData[0]?.overlaps.map(...) || []
averageOverlapsOf(rows) ==
    IF Len(rows) = 0 THEN <<>>
    ELSE [index \in 1..Len(rows[1].overlaps) |-> averageAt(rows, index)]

\* Number.prototype.toFixed(1) of a non-negative value: the nearest multiple
\* of 0.1, the larger one on a tie, as whole part and first decimal
toFixed1(r) ==
    LET tenths == (20 * r.num + r.den) \div (2 * r.den) IN
    [whole |-> tenths \div 10, decimal |-> tenths % 10]


----------------------------------------------------------------------------
(* Single-dataset view: ResultsTable (part_002:24-119) *)

\* String.prototype.toLowerCase on the letters that occur in the levels of
\* the model
LowerChar(c) ==
    CASE c = "A" -> "a" [] c = "E" -> "e" [] c = "G" -> "g" [] c = "I" -> "i"
      [] c = "N" -> "n" [] c = "O" -> "o" [] c = "R" -> "r" [] c = "T" -> "t"
      [] c = "W" -> "w"
      [] OTHER -> c

toLowerCase(s) == [i \in 1..Len(s) |-> LowerChar(s[i])]

LevelError == <<"e", "r", "r", "o", "r">>
LevelWarning == <<"w", "a", "r", "n", "i", "n", "g">>
LevelInfo == <<"i", "n", "f", "o">>
LevelNote == <<"n", "o", "t", "e">>
LevelNone == <<"n", "o", "n", "e">>

\* one step of the reduce that builds ruleConfigurations:
\* if (rule.id && rule.defaultConfiguration?.level) acc[rule.id] = level.
\* (No rule of the model is named __proto__, the one key an assignment
\* does not create.)
ruleConfigurationsStep(acc, rule) ==
    IF rule.id # "" /\ Has(rule, "level") /\ rule.level # <<>>
    THEN Set(acc, rule.id, rule.level)
    ELSE acc

RECURSIVE ruleConfigurationsFrom(_, _, _)
ruleConfigurationsFrom(rules, i, acc) ==
    IF i > Len(rules) THEN acc
    ELSE ruleConfigurationsFrom(rules, i + 1, ruleConfigurationsStep(acc, rules[i]))

\* run?.tool.driver.rules?.reduce(..., {}) || {}
ruleConfigurations(run) ==
    IF run.tool.driver.hasRules
    THEN ruleConfigurationsFrom(run.tool.driver.rules, 1, <<>>)
    ELSE <<>>

\* result.ruleId as a property key
ruleIdKey(result) == IF Has(result, "ruleId") THEN result.ruleId ELSE "undefined"

\* Variant of getEffectiveLevel: the rule's default level comes first.
getEffectiveLevelRuleFirst(result, run) ==
    LET config == ruleConfigurations(run) IN
    IF HasOwn(config, ruleIdKey(result))
    THEN toLowerCase(Get(config, ruleIdKey(result)).value)
    ELSE IF Has(result, "level") /\ result.level # <<>>
    THEN toLowerCase(result.level)
    ELSE LevelNone

\* getEffectiveLevel (part_002:46-54).  The ruleId of a finding of a stored
\* dataset is no property of Object.prototype (handleFileUpload raises on
\* those), so ruleConfigurations[result.ruleId] is an own property or
\* undefined.
getEffectiveLevel(result, run) ==
    LET config == ruleConfigurations(run) IN
    IF Has(result, "level") /\ result.level # <<>>
    THEN toLowerCase(result.level)
    ELSE IF HasOwn(config, ruleIdKey(result))
    THEN toLowerCase(Get(config, ruleIdKey(result)).value)
    ELSE LevelNone

\* const rule = run?.tool.driver.rules?.find(r => r.id === ruleId);
\* return rule?.properties?.tags || []  (part_002:56-59): the text of
\* getRuleTags of ComparisonView, for the run of the props
ResultsTable_getRuleTags(run, ruleId) == getRuleTags(run, ruleId)

Whitespace == {" "}

\* String.prototype.trim
trim(s) ==
    LET solid == {i \in 1..Len(s) : s[i] \notin Whitespace} IN
    IF solid = {} THEN <<>>
    ELSE SubSeq(s, SetMin(solid), CHOOSE e \in solid : \A i \in solid : i <= e)

\* String.prototype.replace with a string pattern: the first occurrence
replace(s, pattern, replacement) ==
    LET occ == {p \in 1..(Len(s) - Len(pattern) + 1) :
                   SubSeq(s, p, p + Len(pattern) - 1) = pattern}
    IN IF occ = {} THEN s
       ELSE LET p == SetMin(occ) IN
            SubSeq(s, 1, p - 1) \o replacement \o SubSeq(s, p + Len(pattern), Len(s))

\* getCWEFromTags of ResultsTable (part_002:61-65)
ResultsTable_getCWEFromTags(tags) ==
    LET hits == {i \in 1..Len(tags) : IsCWETag(tags[i])} IN
    IF hits = {} THEN Null
    ELSE LET cweTag == tags[SetMin(hits)] IN
         trim(replace(cweTag, PrefixColon, PrefixDash))

\* getSeverityWeight
getSeverityWeight(severity) ==
    LET level == toLowerCase(severity) IN
    CASE level = LevelError -> 0
      [] level = LevelWarning -> 1
      [] level = LevelInfo -> 2
      [] level = LevelNote -> 3
      [] OTHER -> 4

\* items[0]?.level || ruleConfigurations[ruleId] || 'none', for an entry of
\* Object.entries(results) (part_002:78, 102, 198)
severityOf(entry, run) ==
    LET items == entry.value
        config == ruleConfigurations(run)
    IN IF Len(items) > 0 /\ Has(items[1], "level") /\ items[1].level # <<>>
       THEN items[1].level
       ELSE IF HasOwn(config, entry.key) THEN Get(config, entry.key).value
       ELSE LevelNone

\* list with entry x inserted after the last element whose weight is not
\* larger: Array.prototype.sort is stable
InsertByWeight(list, x, run) ==
    LET W(e) == getSeverityWeight(severityOf(e, run))
        after == {i \in DOMAIN list : W(x) < W(list[i])}
        p == IF after = {} THEN Len(list) + 1 ELSE SetMin(after)
    IN SubSeq(list, 1, p - 1) \o <<x>> \o SubSeq(list, p, Len(list))

RECURSIVE sortBySeverity(_, _)
sortBySeverity(list, run) ==
    IF list = <<>> THEN <<>>
    ELSE InsertByWeight(sortBySeverity(SubSeq(list, 1, Len(list) - 1), run),
                        list[Len(list)], run)

\* Object.entries(results).sort(by getSeverityWeight) (part_002:77-81)
sortedEntries(results, run) == sortBySeverity(results, run)

\* one step of the reduce that builds cweGroups of ResultsTable; like the
\* categories of ComparisonView, a key begins with CWE- here
ResultsTable_cweGroupsStep(acc, entry, run) ==
    LET ruleId == entry.key
        items == entry.value
        cwe == ResultsTable_getCWEFromTags(ResultsTable_getRuleTags(run, ruleId))
        g == [ruleId |-> ruleId, items |-> items]
    IN IF ~Truthy(cwe) THEN acc
       ELSE IF HasCWE(acc, cwe)
       THEN [acc EXCEPT ![CWEIndex(acc, cwe)].value = Append(@, g)]
       ELSE Append(acc, [key |-> cwe, value |-> <<g>>])

RECURSIVE ResultsTable_cweGroupsFrom(_, _, _, _)
ResultsTable_cweGroupsFrom(entries, run, i, acc) ==
    IF i > Len(entries) THEN acc
    ELSE ResultsTable_cweGroupsFrom(entries, run, i + 1,
                                    ResultsTable_cweGroupsStep(acc, entries[i], run))

\* cweGroups of ResultsTable (part_002:86-96)
ResultsTable_cweGroups(results, run) ==
    ResultsTable_cweGroupsFrom(sortedEntries(results, run), run, 1, <<>>)

\* the rows of the per-rule summary, as shown and as exported, without the
\* TOTAL row (part_002:100-111, 195-198)
summaryRows(results, run) ==
    LET entries == sortedEntries(results, run) IN
    [k \in 1..Len(entries) |->
        LET ruleId == entries[k].key
            tags == ResultsTable_getRuleTags(run, ruleId)
            cwe == ResultsTable_getCWEFromTags(tags)
        IN [ruleId |-> ruleId,
            cwe |-> IF Truthy(cwe) THEN cwe ELSE <<>>,
            tags |-> tags,
            count |-> Len(entries[k].value),
            severity |-> severityOf(entries[k], run)]]

\* the effective level shown for every finding of every entry of
\* sortedEntries (part_002:349, 367-368; line 304 shows the same per group)
effectiveLevels(results, run) ==
    LET entries == sortedEntries(results, run) IN
    [k \in 1..Len(entries) |->
        [q \in 1..Len(entries[k].value) |->
            getEffectiveLevel(entries[k].value[q], run)]]


----------------------------------------------------------------------------
(* Uploaded documents (types/sarif.ts) *)

\* tags, as the character sequences of their text
TagXCWE5 == <<"x", "C", "W", "E", "-", "5">>
TagCWE79 == <<"C", "W", "E", "-", "7", "9">>
TagCWEColon79 == <<"C", "W", "E", ":", "7", "9">>
TagCWEColon9 == <<"C", "W", "E", ":", "9">>
TagCWENoDigit == <<"C", "W", "E", "-", "x">>
TagCWENested == <<"C", "W", "E", "-", "C", "W", "E", ":", "7">>
TagCWE10Text == <<"C", "W", "E", "-", "1", "0", "x">>

\* Rule: id and the optional properties.tags
Rule(id, tags) == [id |-> id, hasTags |-> TRUE, tags |-> tags]
RuleNoTags(id) == [id |-> id, hasTags |-> FALSE, tags |-> <<>>]

\* tool.driver: name and the optional rules
Driver(name, rules) == [name |-> name, hasRules |-> TRUE, rules |-> rules]
DriverNoRules(name) == [name |-> name, hasRules |-> FALSE, rules |-> <<>>]

\* Result: ruleId and message; the message text of the k-th result of a
\* document is k, which tells the findings of one document apart
Results(ruleIds) ==
    [k \in 1..Len(ruleIds) |-> [ruleId |-> ruleIds[k], message |-> k]]

\* SarifLog with a single run
SarifLog(driver, ruleIds) ==
    [version |-> "2.1.0",
     runs |-> <<[tool |-> [driver |-> driver], results |-> Results(ruleIds)]>>]

\* The drivers of the documents uploaded in the session.  In DriverA the
\* rules R1 and R2 have the same category, CWE-79; in DriverB rule R1 has
\* another category, CWE-9, and R2 has none.  No driver has a rule named
\* constructor.
DriverA ==
    Driver("ToolA", <<Rule("R1", <<TagXCWE5, TagCWE79>>),
                      Rule("R2", <<TagCWEColon79>>)>>)
DriverB ==
    Driver("ToolB", <<Rule("R1", <<TagCWEColon9, TagCWE79>>),
                      RuleNoTags("R2")>>)

SessionDrivers == {DriverA, DriverB}

\* ruleIds of the findings uploaded in the session
SessionRuleIds == {"R1", "R2", "constructor"}

SessionDocs ==
    {SarifLog(d, ids) : d \in SessionDrivers,
                        ids \in SeqsUpTo(SessionRuleIds, MaxFindings)}

----------------------------------------------------------------------------
(* The upload session: App (part_001) and FileUpload (part_003) *)

Slots == 0..2

\* null, as held by an empty slot of sarifs
NullSlot == [isNull |-> TRUE]

\* sarifs.filter(Boolean)
RECURSIVE filterBoolean(_, _)
filterBoolean(list, i) ==
    IF i > 2 THEN <<>>
    ELSE (IF list[i] = NullSlot THEN <<>> ELSE <<list[i]>>)
             \o filterBoolean(list, i + 1)

activeSarifs == filterBoolean(sarifs, 0)

\* sarifs.findIndex(s => s === null)
nextUploadIndex ==
    IF \E i \in Slots : sarifs[i] = NullSlot
    THEN SetMin({i \in Slots : sarifs[i] = NullSlot})
    ELSE -1

\* Rendering App throws: ResultsTable (one active dataset) and
\* ComparisonView (two or more) read run.tool.driver of every dataset they
\* are given, and no error boundary catches the TypeError, so React renders
\* nothing any more.
renderRaises ==
    \E i \in Slots :
        /\ sarifs[i] # NullSlot
        /\ (~Has(sarifs[i].run, "tool") \/ ~Has(sarifs[i].run.tool, "driver"))

\* Variant of UploadIndices: with two or more datasets an upload for the
\* last slot is always offered.
UploadIndicesLastSlot ==
    IF renderRaises THEN {}
    ELSE IF Len(activeSarifs) = 0 THEN {0}
    ELSE IF Len(activeSarifs) = 1 THEN {1}
    ELSE {2}

\* The slot indices for which App renders a FileUpload (part_001:60-86)
UploadIndices ==
    IF renderRaises THEN {}
    ELSE IF Len(activeSarifs) = 0 THEN {0}
    ELSE IF Len(activeSarifs) = 1 THEN {1}
    ELSE IF nextUploadIndex # -1 /\ nextUploadIndex < 3 THEN {nextUploadIndex}
    ELSE {}

PendingCount == pending[0] + pending[1] + pending[2]

SessionInit ==
    /\ sarifs = [i \in Slots |-> NullSlot]
    /\ pending = [i \in Slots |-> 0]
    /\ alert = FALSE

\* The user picks a file in the FileUpload rendered for slot index: the
\* read starts and its onload keeps the onFileUpload of this render.
handleFileChange(index) ==
    /\ index \in UploadIndices
    /\ PendingCount < MaxPending
    /\ pending' = [pending EXCEPT ![index] = @ + 1]
    /\ alert' = FALSE
    /\ UNCHANGED <<sarifs, arg, res>>

\* the outcomes of handleFileUpload on the documents of the session
SessionUploads == {handleFileUpload(content) : content \in SessionDocs}

\* Variant of onload: the new list of slots is not a copy of the previous
\* one, only the slot written is occupied.
onloadWithoutCopy(index, up) ==
    /\ pending[index] > 0
    /\ pending' = [pending EXCEPT ![index] = @ - 1]
    /\ IF up.raised
       THEN /\ alert' = TRUE
            /\ UNCHANGED sarifs
       ELSE /\ alert' = FALSE
            /\ sarifs' = [i \in Slots |-> IF i = index THEN up.dataset ELSE NullSlot]
    /\ UNCHANGED <<arg, res>>

\* reader.onload of a read started for slot index: try {
\* onFileUpload(JSON.parse(...)) } catch { alert(...) }, with onFileUpload =
\* data => handleFileUpload(data, index); up is handleFileUpload of the
\* parsed content of the file.
onload(index, up) ==
    /\ pending[index] > 0
    /\ pending' = [pending EXCEPT ![index] = @ - 1]
    /\ IF up.raised
       THEN /\ alert' = TRUE
            /\ UNCHANGED sarifs
       ELSE /\ alert' = FALSE
            /\ sarifs' = [sarifs EXCEPT ![index] = up.dataset]
    /\ UNCHANGED <<arg, res>>

\* "Start New Comparison", rendered when two or more datasets are active
resetComparison ==
    /\ ~renderRaises
    /\ Len(activeSarifs) >= 2
    /\ sarifs' = [i \in Slots |-> NullSlot]
    /\ alert' = FALSE
    /\ UNCHANGED <<pending, arg, res>>

Init ==
    /\ SessionInit
    /\ arg = <<>>
    /\ res = NotComputed

Next ==
    \/ \E index \in Slots : handleFileChange(index)
    \/ \E index \in Slots, up \in SessionUploads : onload(index, up)
    \/ resetComparison

Spec == Init /\ [][Next]_vars

\* What ComparisonView computes from the active datasets of the state
cweGroups == cweGroupsOf(activeSarifs)
summaryData == summaryDataOf(cweGroups)
averageOverlaps == averageOverlapsOf(summaryData)


----------------------------------------------------------------------------
(* Function-level specifications: the input is drawn in the initial state  *)
(* and one action applies the function to it.                              *)

Computed(v) == [computed |-> TRUE, value |-> v]

\* --- Category Resolver ---------------------------------------------------

ResolverTags ==
    {TagXCWE5, TagCWE79, TagCWEColon9, TagCWENoDigit, TagCWENested, TagCWE10Text}

ResolverRules(id) ==
    {Rule(id, tags) : tags \in SeqsUpTo(ResolverTags, MaxTags)}
        \cup {RuleNoTags(id)}

\* The rule lists looked up: none, empty, or one rule of the id looked up
\* with any of the tag lists, alone, or before or after a rule of another
\* id (a rule id is unique within a dataset's tool)
OtherRule == Rule("R2", <<TagCWE79>>)

ResolverDrivers ==
    {DriverNoRules("Tool"), Driver("Tool", <<>>), Driver("Tool", <<OtherRule>>)}
        \cup {Driver("Tool", <<r>>) : r \in ResolverRules("R1")}
        \cup {Driver("Tool", <<r, OtherRule>>) : r \in ResolverRules("R1")}
        \cup {Driver("Tool", <<OtherRule, r>>) : r \in ResolverRules("R1")}

ResolverInit ==
    /\ SessionInit
    /\ arg \in {[run |-> [tool |-> [driver |-> d]], ruleId |-> "R1"] :
                    d \in ResolverDrivers}
    /\ res = NotComputed

\* const cwe = getCWEFromTags(getRuleTags(run, ruleId)) (part_000:42-43)
resolveCategory ==
    /\ res = NotComputed
    /\ res' = Computed(categoryOf(arg.run, arg.ruleId))
    /\ UNCHANGED <<sarifs, pending, alert, arg>>

SpecResolver == ResolverInit /\ [][resolveCategory]_vars

\* --- one Comparison Row --------------------------------------------------

\* The counts of one category in two or three datasets, not all of them 0:
\* a comparison is shown for two or more datasets, and a row exists only
\* for a category that has a finding in some dataset.
CountVectors(maxCount) ==
    {v \in [1..2 -> 0..maxCount] \cup [1..3 -> 0..maxCount] :
        \E i \in DOMAIN v : v[i] > 0}

RowInit ==
    /\ SessionInit
    /\ arg \in CountVectors(MaxCount)
    /\ res = NotComputed

\* the body of allCWEs.map(cwe => ...) for per-dataset counts arg
computeRow ==
    /\ res = NotComputed
    /\ res' = Computed(summaryRow(TagCWE79, arg))
    /\ UNCHANGED <<sarifs, pending, alert, arg>>

SpecRow == RowInit /\ [][computeRow]_vars

\* --- the average row -----------------------------------------------------

\* the category of the k-th row: CWE-1, CWE-2, ...
RowCategory(k) == PrefixDash \o <<CHOOSE d \in Digits : CodeUnit(d) = 48 + k>>

\* The per-dataset counts of the rows of summaryData: up to MaxRows
\* categories over two datasets, or two categories fewer over three (which
\* keeps the set small), with up to MaxRowCount findings per category and
\* dataset
RowLists ==
    UNION {[1..k -> {v \in CountVectors(MaxRowCount) : Len(v) = 2}] :
               k \in 0..MaxRows}
        \cup UNION {[1..k -> {v \in CountVectors(MaxRowCount) : Len(v) = 3}] :
                        k \in 0..(MaxRows - 2)}

AverageInit ==
    /\ SessionInit
    /\ arg \in {[k \in 1..Len(counts) |-> summaryRow(RowCategory(k), counts[k])] :
                    counts \in RowLists}
    /\ res = NotComputed

computeAverages ==
    /\ res = NotComputed
    /\ res' = Computed(averageOverlapsOf(arg))
    /\ UNCHANGED <<sarifs, pending, alert, arg>>

SpecAverage == AverageInit /\ [][computeAverages]_vars

\* --- Finding Store -------------------------------------------------------

GroupRuleIds == {"R1", "R2", "2", "10", "", "constructor"}

GroupInit ==
    /\ SessionInit
    /\ arg \in {SarifLog(DriverA, ids) : ids \in SeqsUpTo(GroupRuleIds, MaxGroupFindings)}
    /\ res = NotComputed

uploadDocument ==
    /\ res = NotComputed
    /\ res' = Computed(handleFileUpload(arg))
    /\ UNCHANGED <<sarifs, pending, alert, arg>>

SpecGroup == GroupInit /\ [][uploadDocument]_vars


\* --- Finding Store on findings with an empty or a missing ruleId ---------

\* a result before its message is given: with the ruleId R1, the empty
\* ruleId, the ruleId that reads undefined, or no ruleId
RuleIdShapes ==
    {[ruleId |-> "R1"], [ruleId |-> ""], [ruleId |-> "undefined"], [none |-> TRUE]}

\* the result with message k for a shape: the ruleId of the shape, if any
ResultOf(shape, k) ==
    IF Has(shape, "ruleId") THEN [ruleId |-> shape.ruleId, message |-> k]
    ELSE [message |-> k]

RuleIdsInit ==
    /\ SessionInit
    /\ arg \in {[version |-> "2.1.0",
                 runs |-> <<[tool |-> [driver |-> DriverA],
                             results |-> [k \in 1..Len(shapes) |->
                                             ResultOf(shapes[k], k)]]>>] :
                    shapes \in SeqsUpTo(RuleIdShapes, MaxGroupFindings)}
    /\ res = NotComputed

SpecRuleIds == RuleIdsInit /\ [][uploadDocument]_vars

\* --- the session on the documents of the end-to-end example --------------

TagCWE9 == <<"C", "W", "E", "-", "9">>

\* Two findings of R1, tagged CWE-79 (in either spelling, once with a
\* finding of a rule that is not listed in between); three findings
\* of R2, tagged CWE-79; documents without a categorized finding; a
\* document with two categories and two rules of one category; and a
\* document with two findings of a rule whose first tag with the prefix has
\* no digits and one finding of a rule tagged CWE:79.
ExampleDocs ==
    {SarifLog(Driver("Tool1", <<Rule("R1", <<TagCWE79>>)>>), <<"R1", "R1">>),
     SarifLog(Driver("Tool1", <<Rule("R1", <<TagXCWE5, TagCWEColon79>>)>>),
              <<"R1", "R4", "R1">>),
     SarifLog(Driver("Tool2", <<Rule("R2", <<TagCWE79>>)>>), <<"R2", "R2", "R2">>),
     SarifLog(DriverNoRules("Tool3"), <<>>),
     SarifLog(Driver("Tool3", <<RuleNoTags("R1")>>), <<"R1">>),
     SarifLog(Driver("Tool3", <<Rule("R1", <<TagCWE79>>)>>), <<"R3", "R3">>),
     SarifLog(Driver("Tool4", <<Rule("R1", <<TagCWE79>>), Rule("R2", <<TagCWE79>>),
                                Rule("R3", <<TagCWE9>>)>>),
              <<"R3", "R1", "R2">>),
     SarifLog(Driver("Tool5", <<Rule("R1", <<TagCWENoDigit, TagCWE79>>),
                                Rule("R2", <<TagCWEColon79>>)>>),
              <<"R1", "R2", "R1">>)}

ExampleUploads == {handleFileUpload(content) : content \in ExampleDocs}

NextE2E ==
    \/ \E index \in Slots : handleFileChange(index)
    \/ \E index \in Slots, up \in ExampleUploads : onload(index, up)
    \/ resetComparison

SpecE2E == Init /\ [][NextE2E]_vars


\* --- the views of one dataset --------------------------------------------

TagCWE79Space == <<"C", "W", "E", "-", "7", "9", " ">>
TagCWE79Text == <<"C", "W", "E", "-", "7", "9", ":", " ", "X", "S", "S">>

\* levels as tools write them
LevelErrorCapital == <<"E", "r", "r", "o", "r">>
LevelWarningUpper == <<"W", "A", "R", "N", "I", "N", "G">>

\* Rule with defaultConfiguration.level
RuleWithLevel(id, tags, level) == Rule(id, tags) @@ [level |-> level]

\* A tool whose rules carry the category as the whole tag, and one whose
\* tags carry more text.  Both have a rule with the empty id and rules
\* whose ids are array indices; neither has a rule R9.
DriverPlain ==
    Driver("ToolV", <<RuleWithLevel("R1", <<TagCWE79>>, LevelErrorCapital),
                      Rule("R2", <<TagCWEColon79>>),
                      RuleWithLevel("2", <<TagXCWE5, TagCWE79Space>>, LevelNote),
                      Rule("10", <<TagCWE79>>),
                      RuleWithLevel("", <<TagCWE9>>, LevelWarning)>>)
DriverText ==
    Driver("ToolW", <<Rule("R1", <<TagCWE79Text>>),
                      RuleWithLevel("R2", <<TagCWENoDigit, TagCWE79>>, LevelWarningUpper),
                      Rule("2", <<TagCWENested>>),
                      RuleWithLevel("10", <<>>, LevelInfo),
                      Rule("", <<TagCWE10Text>>)>>)

ViewRuleIds == {"R1", "R2", "2", "10", "", "R9"}
ViewLevels == {LevelWarningUpper, LevelNote}

\* a result before its message is given: a ruleId, with or without a level
ViewShapes ==
    {[ruleId |-> id] : id \in ViewRuleIds}
        \cup {[ruleId |-> id, level |-> l] : id \in ViewRuleIds, l \in ViewLevels}

ViewDocs ==
    {[version |-> "2.1.0",
      runs |-> <<[tool |-> [driver |-> d],
                  results |-> [k \in 1..Len(shapes) |-> shapes[k] @@ [message |-> k]]]>>] :
         d \in {DriverPlain, DriverText},
         shapes \in SeqsUpTo(ViewShapes, MaxViewFindings)}

ViewsInit ==
    /\ SessionInit
    /\ arg \in ViewDocs
    /\ res = [table |-> NotComputed, groups |-> NotComputed]

\* ResultsTable of the dataset made from arg
renderResultsTable ==
    /\ res.table = NotComputed
    /\ LET d == handleFileUpload(arg).dataset IN
       res' = [res EXCEPT !.table =
                  Computed([sortedEntries |-> sortedEntries(d.results, d.run),
                            cweGroups |-> ResultsTable_cweGroups(d.results, d.run),
                            summary |-> summaryRows(d.results, d.run),
                            levels |-> effectiveLevels(d.results, d.run)])]
    /\ UNCHANGED <<sarifs, pending, alert, arg>>

\* groupByCWE of ComparisonView on the dataset made from arg
renderCategoryGroups ==
    /\ res.groups = NotComputed
    /\ LET d == handleFileUpload(arg).dataset IN
       res' = [res EXCEPT !.groups = Computed(groupByCWE(d.results, d.run))]
    /\ UNCHANGED <<sarifs, pending, alert, arg>>

NextViews == renderResultsTable \/ renderCategoryGroups

SpecViews == ViewsInit /\ [][NextViews]_vars

\* --- the session on malformed files --------------------------------------

\* The text of a file: text that JSON.parse rejects, or the text of a JSON
\* value, given by that value.
InvalidText == [valid |-> FALSE]
TextOf(value) == [valid |-> TRUE, value |-> value]

\* JSON.parse
JSONparse(text) ==
    IF text.valid THEN [raised |-> FALSE, value |-> text.value]
    ELSE [raised |-> TRUE]

\* the body of the try block of reader.onload (part_003:16-18)
parseAndUpload(text) ==
    LET content == JSONparse(text) IN
    IF content.raised THEN [raised |-> TRUE]
    ELSE handleFileUpload(content.value)

\* JSON values that are not a SarifLog: null; an object without runs; one
\* with an empty runs list; one whose first run has no results; one whose
\* first run has no tool; one whose tool has no driver.
JsonNull == [jsonNull |-> TRUE]
DocNoRuns == [version |-> "2.1.0"]
DocEmptyRuns == [version |-> "2.1.0", runs |-> <<>>]
DocNoResults == [version |-> "2.1.0", runs |-> <<[tool |-> [driver |-> DriverA]]>>]
DocNoTool == [version |-> "2.1.0", runs |-> <<[results |-> Results(<<"R1">>)]>>]
DocNoDriver ==
    [version |-> "2.1.0",
     runs |-> <<[tool |-> [name |-> "ToolA"], results |-> Results(<<"R1">>)]>>]

MalformedTexts ==
    {InvalidText} \cup
    {TextOf(v) : v \in {JsonNull, DocNoRuns, DocEmptyRuns, DocNoResults,
                        DocNoTool, DocNoDriver}}

WellFormedTexts ==
    {TextOf(SarifLog(DriverA, <<"R1">>)), TextOf(SarifLog(DriverB, <<"R1", "R2">>)),
     TextOf(SarifLog(DriverNoRules("ToolC"), <<>>))}

IngestUploads == {parseAndUpload(text) : text \in MalformedTexts \cup WellFormedTexts}

NextIngest ==
    \/ \E index \in Slots : handleFileChange(index)
    \/ \E index \in Slots, up \in IngestUploads : onload(index, up)
    \/ resetComparison

SpecIngest == Init /\ [][NextIngest]_vars


----------------------------------------------------------------------------
(* Properties *)

\* In the session specifications ComparisonView is rendered, over
\* activeSarifs, when two or more datasets are active (part_001:79-95).

\* the findings of dataset d, as uploaded
RawFindings(d) == d.run.results

\* for every finding of dataset d, the category its ruleId resolves to
\* through the rule metadata of d
FindingCategories(d) ==
    [j \in DOMAIN RawFindings(d) |-> categoryOf(d.run, RawFindings(d)[j].ruleId)]

\* the positions of the findings of d whose ruleId resolves to category c
FindingsOfCategory(d, c) ==
    {j \in DOMAIN RawFindings(d) : FindingCategories(d)[j] = c}

\* the categories that occur in dataset d
CategoriesOf(d) ==
    {FindingCategories(d)[j] : j \in DOMAIN RawFindings(d)} \ {Null}

RECURSIVE SumSeq(_, _)
SumSeq(f, k) == IF k > Len(f) THEN 0 ELSE f[k] + SumSeq(f, k + 1)

\* C1: in every comparison, the count of a row for an active dataset d is
\* the number of findings of d whose ruleId resolves to the row's category
\* through d's own rules (0 when there is none), and the counts of d over
\* all rows add up to the number of findings of d that have a category, so
\* a finding without a category is counted in no row.
C1_CountsByOwnCategory ==
    LET active == activeSarifs
        groups == cweGroupsOf(active)
        rows == summaryDataOf(groups)
        cats == [i \in DOMAIN active |-> FindingCategories(active[i])]
    IN Len(active) >= 2 =>
        \A i \in DOMAIN active :
            /\ \A k \in DOMAIN rows :
                   /\ Len(rows[k].findings) = Len(active)
                   /\ rows[k].findings[i]
                          = Cardinality({j \in DOMAIN cats[i] : cats[i][j] = rows[k].cwe})
            /\ SumSeq([k \in DOMAIN rows |-> rows[k].findings[i]], 1)
                   = Cardinality({j \in DOMAIN cats[i] : cats[i][j] # Null})

\* C1 witness: a comparison in which one dataset has two findings of
\* different rules counted in one row, and another dataset has a finding
\* whose rule has no category and a count of 0 in that row.
C1_Witness ==
    LET active == activeSarifs
        groups == cweGroupsOf(active)
        rows == summaryDataOf(groups)
    IN /\ Len(active) >= 2
       /\ \E k \in DOMAIN rows, i, i2 \in DOMAIN active :
              /\ rows[k].findings[i] = 2
              /\ RawFindings(active[i])[1].ruleId # RawFindings(active[i])[2].ruleId
              /\ rows[k].findings[i2] = 0
              /\ FindingsOfCategory(active[i2], Null) # {}

\* C2: in every comparison the rows are exactly the categories that occur
\* in some active dataset, one row each, in ascending lexicographic order
\* of the category string.
C2_RowsAreSortedUnion ==
    LET active == activeSarifs
        groups == cweGroupsOf(active)
        rows == summaryDataOf(groups)
        cats == UNION {CategoriesOf(active[i]) : i \in DOMAIN active}
    IN Len(active) >= 2 =>
        /\ {rows[k].cwe : k \in DOMAIN rows} = cats
        /\ Len(rows) = Cardinality(cats)
        /\ \A k, l \in DOMAIN rows : k < l => StrLess(rows[k].cwe, rows[l].cwe)

\* C2 witness: the first dataset has only CWE-9, a later one has CWE-79, and
\* the rows are CWE-79, CWE-9 (the order of the strings, which is neither
\* the order of first occurrence nor the numeric order).
C2_Witness ==
    LET active == activeSarifs
        groups == cweGroupsOf(active)
        rows == summaryDataOf(groups)
    IN /\ Len(active) >= 2
       /\ CategoriesOf(active[1]) = {TagCWE9}
       /\ Len(rows) = 2
       /\ rows[1].cwe = TagCWE79
       /\ rows[2].cwe = TagCWE9

\* C3: in every row, the overlap of dataset 0 with dataset i, for counts a
\* and b, is 0 when both are 0 and min(a,b)/max(a,b)*100 otherwise, and lies
\* between 0 and 100; (4,2) gives 50, (3,3) gives 100, (0,5) gives 0.
C3_Overlap ==
    res # NotComputed =>
        LET row == res.value IN
        /\ Len(row.overlaps) = Len(arg) - 1
        /\ \A i \in 1..(Len(arg) - 1) :
               LET a == arg[1]
                   b == arg[i + 1]
                   o == row.overlaps[i]
               IN /\ o.den > 0
                  /\ (a = 0 /\ b = 0) => o.num = 0
                  /\ ~(a = 0 /\ b = 0) =>
                         o.num * Max2(a, b) = 100 * Min2(a, b) * o.den
                  /\ 0 <= o.num /\ o.num <= 100 * o.den
        /\ arg = <<4, 2>> => RatEq(row.overlaps[1], Rat(50, 1))
        /\ arg = <<3, 3>> => RatEq(row.overlaps[1], Rat(100, 1))
        /\ arg = <<0, 5>> => RatEq(row.overlaps[1], Rat(0, 1))

\* C3 witness: a row over three datasets with counts 0, 0 and 5 has been
\* computed; both its overlaps are 0.
C3_Witness ==
    /\ res # NotComputed
    /\ arg = <<0, 0, 5>>
    /\ \A i \in 1..2 : RatEq(res.value.overlaps[i], Rat(0, 1))

\* C4: in every row over n datasets, deltas[i] = findings[i+1] - findings[i]
\* for every i in 0..n-2; counts (5,8) give +3 and (8,5) give -3.
C4_Deltas ==
    res # NotComputed =>
        LET row == res.value IN
        /\ Len(row.deltas) = Len(arg) - 1
        /\ \A i \in 1..(Len(arg) - 1) : row.deltas[i] = arg[i + 1] - arg[i]
        /\ arg = <<5, 8>> => row.deltas = <<3>>
        /\ arg = <<8, 5>> => row.deltas = <<-3>>

\* C4 witness: a row with counts 5, 8 and 5 has been computed; its deltas
\* are +3 and -3.
C4_Witness ==
    /\ res # NotComputed
    /\ arg = <<5, 8, 5>>
    /\ res.value.deltas = <<3, -3>>

RECURSIVE RatSum(_, _)
RatSum(f, k) == IF k > Len(f) THEN Rat(0, 1) ELSE RatAdd(f[k], RatSum(f, k + 1))

\* C5: with at least one row, averageOverlap[i] times the number of rows is
\* the sum of overlaps[i] over the rows, for every pairing index i; rows
\* with overlaps 100, 0 and 50 give 50.
C5_AverageIsMean ==
    (res # NotComputed /\ Len(arg) >= 1) =>
        LET avg == res.value IN
        /\ Len(avg) = Len(arg[1].overlaps)
        /\ \A i \in DOMAIN avg :
               /\ avg[i].den > 0
               /\ RatEq(Rat(avg[i].num * Len(arg), avg[i].den),
                        RatSum([k \in DOMAIN arg |-> arg[k].overlaps[i]], 1))
        /\ (/\ Len(arg) = 3
            /\ RatEq(arg[1].overlaps[1], Rat(100, 1))
            /\ RatEq(arg[2].overlaps[1], Rat(0, 1))
            /\ RatEq(arg[3].overlaps[1], Rat(50, 1)))
               => RatEq(avg[1], Rat(50, 1))

\* C5 witness: the averages of three rows with overlaps 100, 0 and 50 have
\* been computed, and the average is 50.
C5_Witness ==
    /\ res # NotComputed
    /\ Len(arg) = 3
    /\ arg[1].findings = <<1, 1>>
    /\ arg[2].findings = <<1, 0>>
    /\ arg[3].findings = <<1, 2>>
    /\ RatEq(res.value[1], Rat(50, 1))

\* C6: when the comparison has no row, averageOverlaps still has one value
\* for each pairing of dataset 0 with a later dataset, each of them 0.
C6_ZeroRowsAverageZero ==
    LET active == activeSarifs
        groups == cweGroupsOf(active)
        rows == summaryDataOf(groups)
        averages == averageOverlapsOf(rows)
    IN (Len(active) >= 2 /\ Len(rows) = 0) =>
        /\ Len(averages) = Len(active) - 1
        /\ \A i \in DOMAIN averages : RatEq(averages[i], Rat(0, 1))


\* the tags of the rule arg.ruleId in the rule list of arg.run; none when
\* there is no rule list, no such rule, or the rule has no tags
LookedUpTags ==
    LET rules == arg.run.tool.driver.rules IN
    IF \E i \in DOMAIN rules : rules[i].id = arg.ruleId /\ rules[i].hasTags
    THEN rules[CHOOSE i \in DOMAIN rules : rules[i].id = arg.ruleId].tags
    ELSE <<>>

\* the longest prefix of s that consists of digits
DigitPrefix(s) ==
    LET n == CHOOSE m \in 0..Len(s) :
                 /\ \A j \in 1..m : s[j] \in Digits
                 /\ (m = Len(s) \/ s[m + 1] \notin Digits)
    IN SubSeq(s, 1, n)

\* the first tag of tags that begins with CWE: or CWE-
FirstCWETag(tags) == tags[SetMin({i \in DOMAIN tags : IsCWETag(tags[i])})]

\* C7 as stated: the category is none when the rule is absent or none of
\* its tags begins with CWE: or CWE-; otherwise it is CWE- followed by the
\* digit run after the separator of the first tag with such a prefix.
C7_FirstPrefixedTagDecides ==
    res # NotComputed =>
        LET tags == LookedUpTags IN
        IF \A i \in DOMAIN tags : ~IsCWETag(tags[i])
        THEN res.value = Null
        ELSE LET tag == FirstCWETag(tags) IN
             res.value = PrefixDash \o DigitPrefix(SubSeq(tag, 5, Len(tag)))

\* C7 as amended: the category is none when the rule is absent, when none
\* of its tags begins with CWE: or CWE-, or when the first tag with such a
\* prefix has no occurrence of CWE, a - or :, and a digit; otherwise it is
\* CWE- followed by the digit run of the leftmost such occurrence in that
\* tag, whatever tags come later.
C7_FirstPrefixedTagPattern ==
    res # NotComputed =>
        LET tags == LookedUpTags IN
        IF \A i \in DOMAIN tags : ~IsCWETag(tags[i])
        THEN res.value = Null
        ELSE LET tag == FirstCWETag(tags)
                 occ == {p \in DOMAIN tag : CWEPatternAt(tag, p)}
             IN IF occ = {} THEN res.value = Null
                ELSE res.value =
                         PrefixDash \o DigitPrefix(SubSeq(tag, SetMin(occ) + 4, Len(tag)))

\* C7 witness: the rule's first tag with the prefix has no digits and a
\* later tag is CWE-79; the category computed is none.
C7_Witness ==
    /\ res # NotComputed
    /\ LookedUpTags = <<TagCWENoDigit, TagCWE79>>
    /\ res.value = Null

\* C8: grouping the findings of a document by ruleId is a partition: every
\* finding is in exactly one group, the group of its ruleId; the group sizes
\* add up to the number of findings; every group keeps the input order.
C8_GroupingIsPartition ==
    res # NotComputed =>
        LET input == arg.runs[1].results
            groups == res.value.dataset.results
        IN /\ ~res.value.raised
           /\ \A j \in DOMAIN input :
                  /\ Cardinality({<<e, q>> \in (DOMAIN groups) \X (DOMAIN input) :
                          q <= Len(groups[e].value) /\ groups[e].value[q] = input[j]}) = 1
                  /\ \E e \in DOMAIN groups :
                         /\ groups[e].key = input[j].ruleId
                         /\ \E q \in DOMAIN groups[e].value : groups[e].value[q] = input[j]
           /\ SumSeq([e \in DOMAIN groups |-> Len(groups[e].value)], 1) = Len(input)
           /\ \A e \in DOMAIN groups : \A q, r \in DOMAIN groups[e].value :
                  q < r => groups[e].value[q].message < groups[e].value[r].message

\* C9: with three datasets, the first with 2 categorized findings, both of
\* rule R1 in CWE-79, the second with 3, all of rule R2 in CWE-79, the third
\* with none, the rows are the single row CWE-79 with findings 2, 3, 0,
\* deltas 1, -3 and overlaps shown as 66.7 and 0.0.
C9_EndToEnd ==
    LET active == activeSarifs
        groups == cweGroupsOf(active)
        rows == summaryDataOf(groups)
        OnlyRule(d, ruleId, n) ==
            /\ CategoriesOf(d) = {TagCWE79}
            /\ Cardinality(FindingsOfCategory(d, TagCWE79)) = n
            /\ \A j \in FindingsOfCategory(d, TagCWE79) :
                   RawFindings(d)[j].ruleId = ruleId
    IN (/\ Len(active) = 3
        /\ OnlyRule(active[1], "R1", 2)
        /\ OnlyRule(active[2], "R2", 3)
        /\ CategoriesOf(active[3]) = {})
           => /\ Len(rows) = 1
              /\ rows[1].cwe = TagCWE79
              /\ rows[1].findings = <<2, 3, 0>>
              /\ rows[1].deltas = <<1, -3>>
              /\ toFixed1(rows[1].overlaps[1]) = [whole |-> 66, decimal |-> 7]
              /\ toFixed1(rows[1].overlaps[2]) = [whole |-> 0, decimal |-> 0]

\* C9 witness: the three datasets of the example are active, the first
\* with an uncategorized finding besides its two of R1, the third with a
\* finding whose rule has no tags.
C9_Witness ==
    LET active == activeSarifs IN
    /\ Len(active) = 3
    /\ Len(RawFindings(active[1])) = 3
    /\ Cardinality(FindingsOfCategory(active[1], TagCWE79)) = 2
    /\ active[1].run.tool.driver.name = "Tool1"
    /\ active[2].run.tool.driver.name = "Tool2"
    /\ active[3].run.tool.driver.name = "Tool3"
    /\ Len(RawFindings(active[3])) = 1

\* C10: for every well-typed document, whatever ruleIds its findings carry,
\* grouping the findings by rule completes without raising an error.
C10_GroupingNeverRaises ==
    res # NotComputed => ~res.value.raised

\* the datasets that handleFileUpload stores for malformed files
MalformedDatasets ==
    {parseAndUpload(text).dataset :
         text \in {t \in MalformedTexts : ~parseAndUpload(t).raised}}

\* C11: a malformed document (invalid JSON, or JSON without a first run,
\* without a results list, or without the tool/driver structure) is never
\* stored as a dataset: no slot ever holds a dataset made from one.
C11_MalformedNeverStored ==
    \A i \in Slots : sarifs[i] \notin MalformedDatasets

\* the run of the document under study
ArgRun == arg.runs[1]

\* C12: for every rule of the dataset, the category in the per-rule
\* summary is the category the resolver of the comparison gives for the
\* rule, empty when it gives none, and the rule is listed in the
\* single-dataset category grouping under that category and no other.
C12_SummaryCategoryIsResolved ==
    res.table # NotComputed =>
        LET table == res.table.value IN
        /\ \A k \in DOMAIN table.summary :
               LET cwe == categoryOf(ArgRun, table.summary[k].ruleId) IN
               table.summary[k].cwe = (IF cwe = Null THEN <<>> ELSE cwe)
        /\ \A e \in DOMAIN table.cweGroups :
               \A q \in DOMAIN table.cweGroups[e].value :
                   table.cweGroups[e].key
                       = categoryOf(ArgRun, table.cweGroups[e].value[q].ruleId)
        /\ \A k \in DOMAIN table.summary :
               categoryOf(ArgRun, table.summary[k].ruleId) # Null =>
                   \E e \in DOMAIN table.cweGroups :
                       \E q \in DOMAIN table.cweGroups[e].value :
                           table.cweGroups[e].value[q].ruleId = table.summary[k].ruleId

\* the findings of the document under study that are shown with a level:
\* the pairs <<entry, position>> of the sorted entries
ShownFindings ==
    LET entries == res.table.value.sortedEntries IN
    {<<k, q>> \in (DOMAIN entries) \X (1..MaxViewFindings + 1) :
         q <= Len(entries[k].value)}

\* the two strings differ at most in the case of their letters
SameLetter(a, b) ==
    \/ a = b
    \/ \E pair \in {<<"A", "a">>, <<"E", "e">>, <<"G", "g">>, <<"I", "i">>,
                    <<"N", "n">>, <<"O", "o">>, <<"R", "r">>, <<"T", "t">>,
                    <<"W", "w">>} :
           {a, b} = {pair[1], pair[2]}

EqualIgnoringCase(s, t) ==
    /\ Len(s) = Len(t)
    /\ \A i \in 1..Len(s) : SameLetter(s[i], t[i])

\* the severity a level stands for, whatever its letter case
SeverityNamed(level) ==
    CHOOSE c \in {LevelError, LevelWarning, LevelInfo, LevelNote} :
        EqualIgnoringCase(c, level)

\* the rules of the dataset with the given id that have a default level
RulesWithLevel(id) ==
    {i \in DOMAIN ArgRun.tool.driver.rules :
         /\ ArgRun.tool.driver.rules[i].id = id
         /\ Has(ArgRun.tool.driver.rules[i], "level")}

\* C15 as stated: the severity shown for a finding is that of its own
\* level when it has one, otherwise that of the default level of the rule
\* with its ruleId when the rule metadata gives one, otherwise none,
\* whatever the letter case of the level.
C15_EffectiveSeverity ==
    res.table # NotComputed =>
        LET table == res.table.value IN
        \A f \in ShownFindings :
            LET result == table.sortedEntries[f[1]].value[f[2]]
                shown == table.levels[f[1]][f[2]]
                rules == RulesWithLevel(result.ruleId)
            IN IF Has(result, "level") THEN shown = SeverityNamed(result.level)
               ELSE IF rules # {}
               THEN shown = SeverityNamed(ArgRun.tool.driver.rules[SetMin(rules)].level)
               ELSE shown = LevelNone

\* C15 as amended: as stated, except that the default level of a rule is
\* used only for a finding whose ruleId is not empty; a finding without a
\* level whose ruleId is empty is shown as none.
C15_EffectiveSeverityNonEmptyId ==
    res.table # NotComputed =>
        LET table == res.table.value IN
        \A f \in ShownFindings :
            LET result == table.sortedEntries[f[1]].value[f[2]]
                shown == table.levels[f[1]][f[2]]
                rules == RulesWithLevel(result.ruleId)
            IN IF Has(result, "level") THEN shown = SeverityNamed(result.level)
               ELSE IF rules # {} /\ result.ruleId # ""
               THEN shown = SeverityNamed(ArgRun.tool.driver.rules[SetMin(rules)].level)
               ELSE shown = LevelNone

\* C15 witness: the levels of a document have been computed in which a
\* finding with the level WARNING is shown as warning, and a finding
\* without a level is shown as error, the default level Error of its rule.
C15_Witness ==
    /\ res.table # NotComputed
    /\ ArgRun.tool.driver = DriverPlain
    /\ Len(ArgRun.results) = 2
    /\ ArgRun.results[1] = [ruleId |-> "R1", level |-> LevelWarningUpper, message |-> 1]
    /\ ArgRun.results[2] = [ruleId |-> "R1", message |-> 2]
    /\ res.table.value.levels = <<<<LevelWarning, LevelError>>>>

\* C13: at most three datasets are active, and while three datasets are
\* active no upload control is offered: the only control left is the reset,
\* after which no dataset is active.
C13_AtMostThree ==
    /\ Len(activeSarifs) <= 3
    /\ Len(activeSarifs) = 3 =>
           /\ UploadIndices = {}
           /\ \A index \in Slots : ~ENABLED handleFileChange(index)

\* C13 witness: three datasets are active and no file read is in flight.
C13_Witness ==
    /\ Len(activeSarifs) = 3
    /\ PendingCount = 0

\* the datasets of the slots are still what handleFileUpload stored for
\* their runs, and every entry of the sorted entries of the per-rule
\* summary and every (ruleId, items) entry of the category groups computed
\* from them holds the whole list the dataset has for ruleId
ViewsShareDatasets(slots) ==
    \A i \in Slots :
        slots[i] # NullSlot =>
            LET d == slots[i]
                groups == groupByCWE(d.results, d.run)
                entries == sortedEntries(d.results, d.run)
            IN /\ d.results = groupByRule(d.run.results).acc
               /\ Len(entries) = Len(d.results)
               /\ \A k \in DOMAIN entries :
                      /\ HasOwn(d.results, entries[k].key)
                      /\ entries[k].value = Get(d.results, entries[k].key).value
               /\ \A e \in DOMAIN groups : \A q \in DOMAIN groups[e].value :
                      LET g == groups[e].value[q] IN
                      /\ HasOwn(d.results, g.ruleId)
                      /\ g.items = Get(d.results, g.ruleId).value

\* C14: a step changes at most one slot, the one a completed file read
\* stores its dataset in, unless it is the reset, which empties all slots;
\* no step changes the findings or rule metadata of a dataset that stays
\* in its slot, and the category groups computed before and after the step
\* hold the datasets' own finding lists.
C14_Frame ==
    [][/\ \/ \E index \in Slots : \A i \in Slots \ {index} : sarifs'[i] = sarifs[i]
          \/ \A i \in Slots : sarifs'[i] = NullSlot
       /\ ViewsShareDatasets(sarifs)
       /\ ViewsShareDatasets(sarifs')]_vars

\* C14 witness: a file read has stored a dataset in slot 2 while slots 0
\* and 1 hold datasets of other tools with categorized findings.
C14_Witness ==
    /\ \A i \in Slots : sarifs[i] # NullSlot
    /\ sarifs[0].run.tool.driver.name = "Tool1"
    /\ sarifs[1].run.tool.driver.name = "Tool2"
    /\ sarifs[2].run.tool.driver.name = "Tool4"
    /\ \A i \in Slots : groupByCWE(sarifs[i].results, sarifs[i].run) # <<>>

\* finding j of dataset d belongs to a rule whose first tag beginning with
\* CWE: or CWE- contains no digit
NoDigitFinding(d, j) ==
    LET tags == getRuleTags(d.run, RawFindings(d)[j].ruleId) IN
    /\ \E t \in DOMAIN tags : IsCWETag(tags[t])
    /\ \A c \in DOMAIN FirstCWETag(tags) : FirstCWETag(tags)[c] \notin Digits

\* C16: in every comparison, a finding of a rule whose first tag with the
\* prefix has no digits resolves to no category, and the counts of its
\* dataset over all rows add up to the number of the dataset's other
\* findings that have a category: it is counted in no row.
C16_NoDigitsNoCategory ==
    LET active == activeSarifs
        groups == cweGroupsOf(active)
        rows == summaryDataOf(groups)
    IN Len(active) >= 2 =>
        \A i \in DOMAIN active :
            LET d == active[i]
                cats == FindingCategories(d)
            IN /\ \A j \in DOMAIN cats : NoDigitFinding(d, j) => cats[j] = Null
               /\ SumSeq([k \in DOMAIN rows |-> rows[k].findings[i]], 1)
                      = Cardinality({j \in DOMAIN cats :
                                        ~NoDigitFinding(d, j) /\ cats[j] # Null})

\* C16 witness: a comparison with a dataset that has two findings of a rule
\* tagged CWE-x, CWE-79 and one finding of a rule tagged CWE:79; the single
\* row CWE-79 counts 1 for it.
C16_Witness ==
    LET active == activeSarifs
        groups == cweGroupsOf(active)
        rows == summaryDataOf(groups)
    IN /\ Len(active) = 2
       /\ active[2].run.tool.driver.name = "Tool5"
       /\ Cardinality({j \in DOMAIN RawFindings(active[2]) :
                          NoDigitFinding(active[2], j)}) = 2
       /\ Len(rows) = 1
       /\ rows[1].cwe = TagCWE79
       /\ rows[1].findings[2] = 1

\* the findings of the document under study without a ruleId, and those
\* with the empty ruleId
MissingRuleId == {j \in DOMAIN ArgRun.results : ~Has(ArgRun.results[j], "ruleId")}
EmptyRuleId ==
    {j \in DOMAIN ArgRun.results :
         Has(ArgRun.results[j], "ruleId") /\ ArgRun.results[j].ruleId = ""}

\* the findings of S form a group of their own in the grouping groups: one
\* group holds exactly the findings of S, in their order
OwnGroup(groups, S) ==
    S # {} =>
        \E e \in DOMAIN groups :
            /\ Len(groups[e].value) = Cardinality(S)
            /\ \A q \in DOMAIN groups[e].value :
                   /\ groups[e].value[q] \in {ArgRun.results[j] : j \in S}
                   /\ \A r \in DOMAIN groups[e].value :
                          q < r => groups[e].value[q].message < groups[e].value[r].message

\* C17: grouping raises no error, drops no finding, and the findings with
\* the empty ruleId and the findings without a ruleId are each a group of
\* their own, which holds no finding with another ruleId value.
C17_EmptyAndMissingOwnGroups ==
    res # NotComputed =>
        /\ ~res.value.raised
        /\ LET groups == res.value.dataset.results IN
           /\ SumSeq([e \in DOMAIN groups |-> Len(groups[e].value)], 1)
                  = Len(ArgRun.results)
           /\ OwnGroup(groups, EmptyRuleId)
           /\ OwnGroup(groups, MissingRuleId)

\* the position at which ruleId first occurs in the finding list of the
\* document under study
FirstOccurrence(ruleId) ==
    SetMin({j \in DOMAIN ArgRun.results : ArgRun.results[j].ruleId = ruleId})

\* within every category of groups the entries are in the order in which
\* their ruleIds first occur in the finding list
InFirstOccurrenceOrder(groups) ==
    \A e \in DOMAIN groups : \A q, r \in DOMAIN groups[e].value :
        q < r => FirstOccurrence(groups[e].value[q].ruleId)
                     < FirstOccurrence(groups[e].value[r].ruleId)

\* C18 for the comparison: the entries of every category of the category
\* groups are in first-occurrence order.
C18_ComparisonOrder ==
    res.groups # NotComputed => InFirstOccurrenceOrder(res.groups.value)

\* C18 for the single-dataset grouping: the entries of every category are
\* in first-occurrence order.
C18_TableOrder ==
    res.table # NotComputed => InFirstOccurrenceOrder(res.table.value.cweGroups)

\* C18: within every category of a dataset the (ruleId, findings) entries
\* are in the order in which each ruleId first occurs in the dataset's
\* finding list, in the comparison's category groups and in the
\* single-dataset category grouping.
C18_EntriesInFirstOccurrenceOrder ==
    C18_ComparisonOrder /\ C18_TableOrder

\* C19: the occupied slots are a prefix of the three slots: a slot is
\* occupied only when every lower slot is occupied.
C19_OccupiedSlotsArePrefix ==
    \A i \in Slots :
        sarifs[i] # NullSlot => \A j \in 0..(i - 1) : sarifs[j] # NullSlot

\* C20: a step from a state that shows a comparison to a state that shows
\* a comparison (so not the reset, after which none is shown) keeps the
\* dataset the overlaps are computed against, dataset 0 of the active
\* datasets.
C20_BaselineKept ==
    [][(Len(activeSarifs) >= 2 /\ Len(filterBoolean(sarifs', 0)) >= 2)
           => filterBoolean(sarifs', 0)[1] = activeSarifs[1]]_vars

\* no slot holds a dataset
AllSlotsEmpty(slots) == \A i \in Slots : slots[i] = NullSlot

\* C21: the reset (the one step that changes the slots and completes no
\* read) leaves all three slots empty; and while all slots are empty the
\* only upload control is the one for slot 0, so a file selected in the new
\* session is read for slot 0: a step that fills a slot from the state in
\* which all slots are empty fills slot 0, never slot 1 or 2, for which
\* only a read started before the reset can be in flight.
C21_NoDatasetFromEarlierRead ==
    [][/\ (sarifs' # sarifs /\ pending' = pending) => AllSlotsEmpty(sarifs')
       /\ (AllSlotsEmpty(sarifs) /\ ~AllSlotsEmpty(sarifs'))
              => (sarifs'[1] = NullSlot /\ sarifs'[2] = NullSlot)]_vars


====
